---- MODULE Spec2Model ----
(***************************************************************************)
(* A model of blister's XMP namespaces (lib/blister/xmp/namespace.pyx):    *)
(* the XMPNamespace mutable mapping with its validity check, the           *)
(* camel-case prefix derivation, and the XMP aggregation object's lookup   *)
(* of default namespace names.                                             *)
(*                                                                         *)
(* Python values are records [t, s, n]: the runtime type's name, the       *)
(* string payload and the integer payload.  A call's outcome is a record   *)
(* [exc, val]: the name of the exception it raised ("" when it returned)   *)
(* and the value it returned.                                              *)
(***************************************************************************)
EXTENDS Integers, Sequences, FiniteSets, TLC

VARIABLES
    cls,        \* per instance, the class it was constructed from
    created,    \* per instance, whether __init__ assigned self.__internal
    internal,   \* per instance, self.__internal
    hist,       \* per instance and key, the callers' last set or delete
    ret,        \* the last call: operation, instance, argument and outcome
    clsName,    \* self.__class__.__name__ of the instance prefix is read on
    prefixOut   \* the string prefix returned

vars == <<cls, created, internal, hist, ret, clsName, prefixOut>>

----------------------------------------------------------------------------
(* Python values *)

PyStr(s) == [t |-> "str", s |-> s, n |-> 0]
PyInt(n) == [t |-> "int", s |-> "", n |-> n]
PyBool(b) == [t |-> "bool", s |-> "", n |-> IF b THEN 1 ELSE 0]
PyNone == [t |-> "NoneType", s |-> "", n |-> 0]
PyEmptyTuple == [t |-> "tuple", s |-> "", n |-> 0]

Returns(v) == [exc |-> "", val |-> v]
Raises(e) == [exc |-> e, val |-> PyNone]
(* An exception constructed with one string argument, kept in val. *)
RaisesWith(e, a) == [exc |-> e, val |-> PyStr(a)]

(* The values the callers store: a word, a numeral, an integer and None. *)
Values == {PyStr("en"), PyStr("5"), PyInt(5), PyNone}

Keys == {"lang", "n"}

Instances == {"A", "B"}

(* Decimal numerals and the integers they denote. *)
Numerals == [i \in 1..2 |-> <<[s |-> "5", n |-> 5], [s |-> "0", n |-> 0]>>[i]]

IsNumeral(s) == \E i \in DOMAIN Numerals : Numerals[i].s = s

NumeralValue(s) == (CHOOSE i \in DOMAIN Numerals : Numerals[i].s = s)
NumeralOf(n) == IF \E i \in DOMAIN Numerals : Numerals[i].n = n
                THEN Numerals[CHOOSE i \in DOMAIN Numerals : Numerals[i].n = n].s
                ELSE "?"

(* str(v): defined for every object. *)
str(v) == CASE v.t = "str" -> Returns(v)
            [] v.t = "int" -> Returns(PyStr(NumeralOf(v.n)))
            [] v.t = "bool" -> Returns(PyStr(IF v.n = 1 THEN "True" ELSE "False"))
            [] OTHER -> Returns(PyStr("None"))

(* int(v): parses a string (ValueError when it is no numeral), keeps a     *)
(* number, and rejects every other object with TypeError.                  *)
int(v) == CASE v.t = "int" -> Returns(v)
            [] v.t = "bool" -> Returns(PyInt(v.n))
            [] v.t = "str" -> IF IsNumeral(v.s)
                              THEN Returns(PyInt(Numerals[NumeralValue(v.s)].n))
                              ELSE Raises("ValueError")
            [] OTHER -> Raises("TypeError")

(* Calling a declared type on a value: self.types[key](self[key]). *)
CallType(T, v) == IF T = "int" THEN int(v) ELSE str(v)

----------------------------------------------------------------------------
(* Namespace declarations: the class attributes uri, types and required.   *)
(* XMPNamespace is the base class; the others are subclasses declaring a   *)
(* uri.  types is a function from the declared keys to type names.         *)

NoTypes == [k \in {} |-> "str"]

XMPNamespaceDecl == [uri |-> "None", types |-> NoTypes, required |-> {}]

Decl == [c \in {"XMPNamespace", "LangNamespace", "NumNamespace", "OddNamespace"} |->
          CASE c = "XMPNamespace" -> XMPNamespaceDecl
            [] c = "LangNamespace" ->
                 [uri |-> "ns:lang",
                  types |-> [k \in {"lang"} |-> "str"],
                  required |-> {"lang"}]
            [] c = "NumNamespace" ->
                 [uri |-> "ns:num",
                  types |-> [k \in {"lang", "n"} |-> IF k = "n" THEN "int" ELSE "str"],
                  required |-> {"lang"}]
            [] c = "OddNamespace" ->
                 [uri |-> "ns:odd",
                  types |-> [k \in {"n"} |-> "int"],
                  required |-> {"lang"}]]

Classes == DOMAIN Decl

----------------------------------------------------------------------------
(* The internal dict: a sequence of [key, val] items in insertion order.   *)

dict_keys(d) == {d[i].key : i \in DOMAIN d}

dict_index(d, k) == CHOOSE i \in DOMAIN d : d[i].key = k

dict_get(d, k) == IF k \in dict_keys(d)
                  THEN Returns(d[dict_index(d, k)].val)
                  ELSE RaisesWith("KeyError", k)

(* A store that appends an item on every set. *)
dict_set_appending(d, k, v) == Append(d, [key |-> k, val |-> v])

dict_set(d, k, v) == IF k \in dict_keys(d)
                     THEN [d EXCEPT ![dict_index(d, k)].val = v]
                     ELSE Append(d, [key |-> k, val |-> v])

dict_del(d, k) == LET i == dict_index(d, k)
                  IN  SubSeq(d, 1, i - 1) \o SubSeq(d, i + 1, Len(d))

----------------------------------------------------------------------------
(* XMPNamespace *)

len(i) == Len(internal[i])

(* __getitem__ that converts the stored value to its declared type. *)
getitem_coercing(i, k) ==
    LET r == dict_get(internal[i], k)
    IN  IF r.exc = "" /\ k \in DOMAIN Decl[cls[i]].types
        THEN CallType(Decl[cls[i]].types[k], r.val)
        ELSE r

getitem(i, k) == dict_get(internal[i], k)

(* Mapping.__contains__: self[key] succeeds. *)
contains(i, k) == getitem(i, k).exc = ""

(* The outcome of a check is "True", "False" or the exception it raises. *)
can_convert_to_correct_type(i, k) ==
    LET r == CallType(Decl[cls[i]].types[k], getitem(i, k).val)
    IN  IF r.exc = "" THEN "True"
        ELSE IF r.exc = "ValueError" THEN "False"
        ELSE r.exc

(* A key check that lets undeclared keys pass. *)
is_valid_key_undeclared_ok(i, k) ==
    IF k \notin DOMAIN Decl[cls[i]].types THEN "True"
    ELSE IF getitem(i, k).val.t = Decl[cls[i]].types[k] THEN "True"
    ELSE can_convert_to_correct_type(i, k)

is_valid_key(i, k) ==
    IF k \notin DOMAIN Decl[cls[i]].types THEN "False"
    ELSE IF getitem(i, k).val.t = Decl[cls[i]].types[k] THEN "True"
    ELSE can_convert_to_correct_type(i, k)

(* all(...) over the dict's keys in iteration order: the first key that is *)
(* not valid decides, a raised exception propagates.                       *)
RECURSIVE all_keys_from(_, _)
all_keys_from(i, p) ==
    IF p > Len(internal[i]) THEN "True"
    ELSE LET r == is_valid_key(i, internal[i][p].key)
         IN  IF r = "True" THEN all_keys_from(i, p + 1) ELSE r

all_keys_are_valid(i) == all_keys_from(i, 1)

all_required_keys_are_present(i) ==
    IF \A k \in Decl[cls[i]].required : contains(i, k) THEN "True" ELSE "False"

is_valid(i) ==
    IF all_keys_are_valid(i) = "True"
    THEN all_required_keys_are_present(i)
    ELSE all_keys_are_valid(i)

Outcome(r) == IF r = "True" THEN Returns(PyBool(TRUE))
              ELSE IF r = "False" THEN Returns(PyBool(FALSE))
              ELSE Raises(r)

----------------------------------------------------------------------------
(* History of the callers' operations, kept beside the program's state:    *)
(* per key, whether it was never set, last deleted, or last set to val.    *)

Never == [st |-> "never", val |-> PyNone]
Deleted == [st |-> "deleted", val |-> PyNone]
LastSet(v) == [st |-> "set", val |-> v]

Call(op, i, arg, out) == [op |-> op, inst |-> i, arg |-> arg, exc |-> out.exc, val |-> out.val]

Frame == UNCHANGED <<clsName, prefixOut>>

(* __init__ that creates the store before it looks at the uri. *)
Construct_store_first(i, c) ==
    /\ ~created[i]
    /\ cls' = [cls EXCEPT ![i] = c]
    /\ created' = [created EXCEPT ![i] = TRUE]
    /\ internal' = [internal EXCEPT ![i] = <<>>]
    /\ ret' = Call("construct", i, c,
                   IF Decl[c].uri = "None" THEN Raises("NoURI") ELSE Returns(PyNone))
    /\ UNCHANGED hist
    /\ Frame

(* XMPNamespace.__init__ on a new instance of class c. *)
Construct(i, c) ==
    /\ ~created[i]
    /\ cls' = [cls EXCEPT ![i] = c]
    /\ IF Decl[c].uri = "None"
       THEN /\ ret' = Call("construct", i, c, Raises("NoURI"))
            /\ UNCHANGED <<created, internal>>
       ELSE /\ created' = [created EXCEPT ![i] = TRUE]
            /\ internal' = [internal EXCEPT ![i] = <<>>]
            /\ ret' = Call("construct", i, c, Returns(PyNone))
    /\ UNCHANGED hist
    /\ Frame

(* __setitem__ on a dict that is a class attribute, shared by instances. *)
SetItem_shared(i, k, v) ==
    /\ created[i]
    /\ internal' = [j \in Instances |-> IF created[j] THEN dict_set(internal[j], k, v)
                                        ELSE internal[j]]
    /\ hist' = [hist EXCEPT ![i][k] = LastSet(v)]
    /\ ret' = Call("set", i, k, Returns(PyNone))
    /\ UNCHANGED <<cls, created>>
    /\ Frame

SetItem(i, k, v) ==
    /\ created[i]
    /\ internal' = [internal EXCEPT ![i] = dict_set(internal[i], k, v)]
    /\ hist' = [hist EXCEPT ![i][k] = LastSet(v)]
    /\ ret' = Call("set", i, k, Returns(PyNone))
    /\ UNCHANGED <<cls, created>>
    /\ Frame

DelItem(i, k) ==
    /\ created[i]
    /\ IF k \in dict_keys(internal[i])
       THEN /\ internal' = [internal EXCEPT ![i] = dict_del(internal[i], k)]
            /\ ret' = Call("delete", i, k, Returns(PyNone))
       ELSE /\ UNCHANGED internal
            /\ ret' = Call("delete", i, k, RaisesWith("KeyError", k))
    /\ hist' = [hist EXCEPT ![i][k] = IF @.st = "never" THEN @ ELSE Deleted]
    /\ UNCHANGED <<cls, created>>
    /\ Frame

GetItem(i, k) ==
    /\ created[i]
    /\ ret' = Call("get", i, k, getitem(i, k))
    /\ UNCHANGED <<cls, created, internal, hist>>
    /\ Frame

LenCall(i) ==
    /\ created[i]
    /\ ret' = Call("len", i, "", Returns(PyInt(len(i))))
    /\ UNCHANGED <<cls, created, internal, hist>>
    /\ Frame

IsValid(i) ==
    /\ created[i]
    /\ ret' = Call("is_valid", i, "", Outcome(is_valid(i)))
    /\ UNCHANGED <<cls, created, internal, hist>>
    /\ Frame

----------------------------------------------------------------------------
(* XMP, the aggregation object: a lookup table of default namespace names. *)

DEFAULT_XMP_NAMESPACES ==
    {"stRef", "dc", "xmp", "xmpRights", "xmpMM", "xmpidq", "exifEX", "exif", "tiff"}

(* The names the callers look up: the defaults and some others. *)
LookupNames == DEFAULT_XMP_NAMESPACES \cup {"pdf", "DC", "xmpmm", "namespace"}

(* The AttributeError whose message carries the requested name. *)
raise_error_no_attr(name) == RaisesWith("AttributeError", name)

(* __getitem__ that knows no name. *)
XMP_getitem_stub(key) == RaisesWith("KeyError", key)

XMP_getitem(key) ==
    IF key \in DEFAULT_XMP_NAMESPACES
    THEN Returns(PyEmptyTuple)
    ELSE RaisesWith("KeyError", key)

XMP_getattr(name) ==
    IF XMP_getitem(name).exc = "KeyError"
    THEN raise_error_no_attr(name)
    ELSE XMP_getitem(name)

XMPGetItem(name) ==
    /\ ret' = Call("xmp_getitem", "xmp", name, XMP_getitem(name))
    /\ UNCHANGED <<cls, created, internal, hist>>
    /\ Frame

XMPGetAttr(name) ==
    /\ ret' = Call("xmp_getattr", "xmp", name, XMP_getattr(name))
    /\ UNCHANGED <<cls, created, internal, hist>>
    /\ Frame

----------------------------------------------------------------------------
(* Prefix derivation.  A string is a sequence of one-character strings.    *)

UpperLetters == <<"A", "B", "C", "D", "E", "F", "G", "H", "I", "J", "K", "L", "M", "N", "O", "P", "Q", "R", "S", "T", "U", "V", "W", "X", "Y", "Z">>
LowerLetters == <<"a", "b", "c", "d", "e", "f", "g", "h", "i", "j", "k", "l", "m", "n", "o", "p", "q", "r", "s", "t", "u", "v", "w", "x", "y", "z">>
Upper == {UpperLetters[i] : i \in DOMAIN UpperLetters}
Lower == {LowerLetters[i] : i \in DOMAIN LowerLetters}
Digit == {"0", "1", "2", "3", "4", "5", "6", "7", "8", "9"}

(* str.lower() *)
lower_char(c) == IF c \in Upper
                 THEN LowerLetters[CHOOSE i \in DOMAIN UpperLetters : UpperLetters[i] = c]
                 ELSE c
lower(s) == [i \in DOMAIN s |-> lower_char(s[i])]

(* The end of the run of lowercase letters that starts at position p. *)
RECURSIVE lower_run_end(_, _)
lower_run_end(s, p) ==
    IF p < Len(s) /\ s[p + 1] \in Lower THEN lower_run_end(s, p + 1) ELSE p

(* re_full_word.sub(r"\1-\2", s) with re_full_word = (.)([A-Z][a-z]+):     *)
(* leftmost matches, left to right, none overlapping.                      *)
RECURSIVE re_full_word_sub(_)
re_full_word_sub(s) ==
    IF Len(s) = 0 THEN <<>>
    ELSE IF Len(s) >= 3 /\ s[1] # "\n" /\ s[2] \in Upper /\ s[3] \in Lower
    THEN LET e == lower_run_end(s, 3)
         IN  <<s[1], "-">> \o SubSeq(s, 2, e) \o re_full_word_sub(SubSeq(s, e + 1, Len(s)))
    ELSE <<s[1]>> \o re_full_word_sub(Tail(s))

(* re_other_word.sub(r"\1-\2", s) with re_other_word = ([a-z0-9])([A-Z]) *)
RECURSIVE re_other_word_sub(_)
re_other_word_sub(s) ==
    IF Len(s) = 0 THEN <<>>
    ELSE IF Len(s) >= 2 /\ s[1] \in Lower \cup Digit /\ s[2] \in Upper
    THEN <<s[1], "-", s[2]>> \o re_other_word_sub(SubSeq(s, 3, Len(s)))
    ELSE <<s[1]>> \o re_other_word_sub(Tail(s))

(* The two substitutions in the other order. *)
camel_convert_other_first(s) == lower(re_full_word_sub(re_other_word_sub(s)))

camel_convert(s) == lower(re_other_word_sub(re_full_word_sub(s)))

(* s.split("-"): the words between the separators, empty ones included. *)
RECURSIVE split_from(_, _, _)
split_from(s, p, word) ==
    IF p > Len(s) THEN <<word>>
    ELSE IF s[p] = "-" THEN <<word>> \o split_from(s, p + 1, <<>>)
    ELSE split_from(s, p + 1, Append(word, s[p]))

split(s) == split_from(s, 1, <<>>)

(* "-".join(words) *)
RECURSIVE join(_)
join(words) ==
    IF Len(words) = 0 THEN <<>>
    ELSE IF Len(words) = 1 THEN words[1]
    ELSE words[1] \o <<"-">> \o join(Tail(words))

namespace_word == <<"n", "a", "m", "e", "s", "p", "a", "c", "e">>

IsNotNamespaceWord(w) == w # namespace_word

(* XMPNamespace.prefix of a class named name *)
prefix(name) == join(SelectSeq(split(camel_convert(name)), IsNotNamespaceWord))

(* The words class names are made of, and the class names. *)
MaxWords == 3

NameWords == {<<"X", "m", "p">>,
              <<"R", "i", "g", "h", "t", "s">>,
              <<"D", "C">>,
              <<"E", "X">>,
              <<"E", "x", "i", "f">>,
              <<"N", "a", "m", "e", "s", "p", "a", "c", "e">>,
              <<"2">>,
              <<"_">>}

RECURSIVE NamesOf(_)
NamesOf(n) == IF n = 0 THEN {<<>>}
              ELSE {w \o r : w \in NameWords, r \in NamesOf(n - 1)}

ClassNames == UNION {NamesOf(n) : n \in 1..MaxWords}

(* Reading the prefix property of an instance whose class is named clsName *)
PrefixCall ==
    /\ prefixOut' = prefix(clsName)
    /\ ret' = Call("prefix", "", "", Returns(PyNone))
    /\ UNCHANGED <<cls, created, internal, hist, clsName>>

NoCall == [op |-> "none", inst |-> "", arg |-> "", exc |-> "", val |-> PyNone]

Init ==
    /\ cls = [i \in Instances |-> "none"]
    /\ created = [i \in Instances |-> FALSE]
    /\ internal = [i \in Instances |-> <<>>]
    /\ hist = [i \in Instances |-> [k \in Keys |-> Never]]
    /\ ret = NoCall
    /\ clsName = <<>>
    /\ prefixOut = <<>>

Next ==
    \/ \E c \in Classes : Construct("A", c)
    \/ \E k \in Keys, v \in Values : SetItem("A", k, v)
    \/ \E k \in Keys : DelItem("A", k)
    \/ \E k \in Keys : GetItem("A", k)
    \/ LenCall("A")
    \/ IsValid("A")
    \/ \E name \in LookupNames : XMPGetItem(name)
    \/ \E name \in LookupNames : XMPGetAttr(name)

Spec == Init /\ [][Next]_vars

(* Two instances, of the same or of different classes, used in turn; the  *)
(* callers store an integer or None.                                       *)
TwoValues == {PyInt(5), PyNone}

NextTwo ==
    \/ \E i \in Instances, c \in Classes : Construct(i, c)
    \/ \E i \in Instances, k \in Keys, v \in TwoValues : SetItem(i, k, v)
    \/ \E i \in Instances, k \in Keys : DelItem(i, k)
    \/ \E i \in Instances : LenCall(i)
    \/ \E i \in Instances : IsValid(i)

SpecTwo == Init /\ [][NextTwo]_vars

(* The prefix of every class name. *)
InitPrefix ==
    /\ cls = [i \in Instances |-> "none"]
    /\ created = [i \in Instances |-> FALSE]
    /\ internal = [i \in Instances |-> <<>>]
    /\ hist = [i \in Instances |-> [k \in Keys |-> Never]]
    /\ ret = NoCall
    /\ clsName \in ClassNames
    /\ prefixOut = <<>>

NextPrefix == PrefixCall

SpecPrefix == InitPrefix /\ [][NextPrefix]_vars

----------------------------------------------------------------------------
(* Properties of one namespace instance, checked under Spec.               *)

ReturnedTrue == ret.exc = "" /\ ret.val = PyBool(TRUE)
ReturnedFalse == ret.exc = "" /\ ret.val = PyBool(FALSE)

StoredKeys(i) == {internal[i][p].key : p \in DOMAIN internal[i]}
StoredValue(i, k) == internal[i][CHOOSE p \in DOMAIN internal[i] : internal[i][p].key = k].val
DeclaredTypes(i) == Decl[cls[i]].types
RequiredKeys(i) == Decl[cls[i]].required

EveryStoredKeyIsDeclared(i) == StoredKeys(i) \subseteq DOMAIN DeclaredTypes(i)
EveryStoredValueFits(i) ==
    \A k \in StoredKeys(i) \cap DOMAIN DeclaredTypes(i) :
        \/ StoredValue(i, k).t = DeclaredTypes(i)[k]
        \/ CallType(DeclaredTypes(i)[k], StoredValue(i, k)).exc = ""
EveryRequiredKeyIsStored(i) == RequiredKeys(i) \subseteq StoredKeys(i)

(* C1: whenever is_valid() has just been called on a namespace reached by  *)
(* set and delete operations, it returned true if and only if every stored *)
(* key is declared in types, every stored value has the declared type or   *)
(* converts to it, and every required key is stored.                       *)
C1_IsValidIff ==
    ret.op = "is_valid" =>
        (ReturnedTrue <=> /\ EveryStoredKeyIsDeclared(ret.inst)
                          /\ EveryStoredValueFits(ret.inst)
                          /\ EveryRequiredKeyIsStored(ret.inst))

C1_Witness ==
    /\ ret.op = "is_valid"
    /\ ReturnedTrue
    /\ cls["A"] = "NumNamespace"
    /\ StoredKeys("A") = {"lang", "n"}
    /\ StoredValue("A", "n") = PyStr("5")
    /\ StoredValue("A", "lang") = PyInt(5)

(* C2: is_valid() never raises: whatever set and delete stored, the call   *)
(* returns a boolean.                                                      *)
C2_IsValidNeverRaises ==
    ret.op = "is_valid" => ret.exc = "" /\ ret.val.t = "bool"

(* C3: get(k) returns exactly the value of the most recent set(k, v) not   *)
(* followed by delete(k), and fails with KeyError when k was never set or  *)
(* was last deleted; is_valid calls in between change nothing.             *)
C3_GetReturnsLastSet ==
    /\ [](ret.op = "get" =>
            IF hist[ret.inst][ret.arg].st = "set"
            THEN ret.exc = "" /\ ret.val = hist[ret.inst][ret.arg].val
            ELSE ret.exc = "KeyError")
    /\ [](\A i \in Instances : created[i] =>
            \A k \in Keys :
                IF hist[i][k].st = "set"
                THEN getitem(i, k) = Returns(hist[i][k].val)
                ELSE getitem(i, k).exc = "KeyError")
    /\ [][ret'.op \in {"is_valid", "get", "len"} => internal' = internal]_vars

C3_Witness ==
    /\ ret.op = "get"
    /\ ret.arg = "n"
    /\ cls["A"] = "NumNamespace"
    /\ ret.exc = ""
    /\ ret.val = PyStr("5")
    /\ hist["A"]["lang"].st = "deleted"

(* C4: length() is the number of keys currently stored: a set of a new key *)
(* raises it by one, a set of a stored key and a failed delete leave it    *)
(* unchanged, a successful delete lowers it by one.                        *)
CurrentlySet(i) == {k \in Keys : hist[i][k].st = "set"}

C4_LengthCountsKeys ==
    /\ [](\A i \in Instances : len(i) = Cardinality(CurrentlySet(i)))
    /\ [](ret.op = "len" => ret.exc = "" /\ ret.val = PyInt(Cardinality(CurrentlySet(ret.inst))))
    /\ [][\A i \in Instances :
            /\ (ret'.op = "set" /\ ret'.inst = i) =>
                  len(i)' = IF hist[i][ret'.arg].st = "set" THEN len(i) ELSE len(i) + 1
            /\ (ret'.op = "delete" /\ ret'.inst = i) =>
                  len(i)' = IF ret'.exc = "KeyError" THEN len(i) ELSE len(i) - 1]_vars

C4_Witness ==
    /\ ret.op = "len"
    /\ ret.val = PyInt(1)
    /\ hist["A"]["lang"].st = "deleted"
    /\ hist["A"]["n"].st = "set"

(* C5: constructing a namespace whose class declares no uri fails with     *)
(* NoURI and creates no store; constructing one with a uri succeeds with   *)
(* an empty store.                                                         *)
C5_ConstructNeedsUri ==
    /\ \A i \in Instances : ~created[i] => internal[i] = <<>>
    /\ ret.op = "construct" =>
          IF Decl[ret.arg].uri = "None"
          THEN ret.exc = "NoURI" /\ ~created[ret.inst]
          ELSE ret.exc = "" /\ created[ret.inst] /\ len(ret.inst) = 0

C5_Witness ==
    /\ ret.op = "construct"
    /\ ret.arg = "XMPNamespace"
    /\ ret.exc = "NoURI"
    /\ ~created["A"]

(* C6: is_valid() follows the store: it is false whenever a required key   *)
(* is missing and true whenever every required key is stored and every     *)
(* stored key passes the type checks.                                      *)
C6_ValidityFollowsStore ==
    ret.op = "is_valid" =>
        /\ ~EveryRequiredKeyIsStored(ret.inst) => ReturnedFalse
        /\ (/\ EveryRequiredKeyIsStored(ret.inst)
            /\ EveryStoredKeyIsDeclared(ret.inst)
            /\ EveryStoredValueFits(ret.inst)) => ReturnedTrue

(* C10: a namespace whose required keys are not all declared in types is   *)
(* never valid: is_valid() is false in every reachable state.              *)
C10_UndeclaredRequiredNeverValid ==
    (ret.op = "is_valid" /\ ~(RequiredKeys(ret.inst) \subseteq DOMAIN DeclaredTypes(ret.inst)))
        => ReturnedFalse

(* C8: on the XMP object, attribute-style and key-style lookup of a name   *)
(* in the default set return an empty sequence, attribute-style lookup of  *)
(* any other name fails with AttributeError, and both styles recognise the *)
(* same names.                                                             *)
DefaultNames ==
    {"stRef", "dc", "xmp", "xmpRights", "xmpMM", "xmpidq", "exifEX", "exif", "tiff"}

----------------------------------------------------------------------------
(* Properties of the prefix, checked under SpecPrefix.                     *)

(* C7: prefix() applies rule B, then rule A, lowercases, splits on the     *)
(* separator, drops the words equal to "namespace" and rejoins with "-":   *)
(* "Namespace" gives "", "XmpRightsNamespace" gives "xmp-rights",          *)
(* "DCNamespace" gives "dc" and "ExifEXNamespace" gives "exif-ex"; no      *)
(* result holds an uppercase letter or the word "namespace".               *)
C7_PrefixOfClassName ==
    ret.op = "prefix" =>
        /\ clsName = <<"N", "a", "m", "e", "s", "p", "a", "c", "e">> => prefixOut = <<>>
        /\ clsName = <<"X", "m", "p", "R", "i", "g", "h", "t", "s", "N", "a", "m", "e", "s", "p", "a", "c", "e">> => prefixOut = <<"x", "m", "p", "-", "r", "i", "g", "h", "t", "s">>
        /\ clsName = <<"D", "C", "N", "a", "m", "e", "s", "p", "a", "c", "e">> => prefixOut = <<"d", "c">>
        /\ clsName = <<"E", "x", "i", "f", "E", "X", "N", "a", "m", "e", "s", "p", "a", "c", "e">> => prefixOut = <<"e", "x", "i", "f", "-", "e", "x">>
        /\ \A p \in DOMAIN prefixOut : prefixOut[p] \notin Upper
        /\ \A p \in DOMAIN split(prefixOut) : split(prefixOut)[p] # <<"n", "a", "m", "e", "s", "p", "a", "c", "e">>

C7_Witness ==
    /\ ret.op = "prefix"
    /\ clsName = <<"E", "x", "i", "f", "E", "X", "N", "a", "m", "e", "s", "p", "a", "c", "e">>
    /\ prefixOut = <<"e", "x", "i", "f", "-", "e", "x">>

----------------------------------------------------------------------------
(* Properties of two instances, checked under SpecTwo.                     *)

(* C9: an operation on one instance leaves every other instance's store,   *)
(* length and is_valid() result unchanged.                                 *)
C9_InstancesShareNothing ==
    [][\A j \in Instances : ret'.inst # j =>
          /\ created'[j] = created[j]
          /\ internal'[j] = internal[j]
          /\ created[j] => /\ len(j)' = len(j)
                           /\ is_valid(j)' = is_valid(j)]_vars

C9_Witness ==
    /\ ret.op = "set"
    /\ ret.inst = "A"
    /\ cls["A"] = "LangNamespace"
    /\ cls["B"] = "LangNamespace"
    /\ created["B"]
    /\ is_valid("A") = "True"
    /\ is_valid("B") = "False"
    /\ len("B") = 1

====
